---- MODULE Spec2Model ----
(***************************************************************************)
(* Model of templates/logging/logging.py: the static helper                *)
(* UnifiedExperiment._flatten_dict, the adapter UnifiedExperiment.log for  *)
(* both backends, and the facade UnifiedLogger (construction, log,         *)
(* log_hyperparams, log_metrics, save, close).                             *)
(*                                                                         *)
(* A Python dict is a sequence of pairs [k, v] with pairwise distinct keys *)
(* in insertion order.  A value is a record [isDict, leaf, items]: either  *)
(* a leaf (leaf = [kind, val, src]) or a nested dict (items).              *)
(***************************************************************************)
EXTENDS Naturals, Sequences, FiniteSets, TLC

VARIABLES pc, data, items, exp_backend, backend, logger, log_base_model,
          calls, steps, lastOp, closes, finishes, logins

vars == <<pc, data, items, exp_backend, backend, logger, log_base_model,
          calls, steps, lastOp, closes, finishes, logins>>

-----------------------------------------------------------------------------
(* Bounds of the model.                                                    *)

\* total number of keys (at all levels) of an input of _flatten_dict
MaxNodes == 3
\* total number of keys (at all levels) of an entry handed to the adapter
MaxEntryNodes == 3
\* total number of keys of the entry the facade's caller holds
MaxFacadeNodes == 1
\* how often the same mapping object is logged through the adapter
MaxLogs == 2
\* how often close() is called on one facade
MaxCloses == 2

-----------------------------------------------------------------------------
(* Python values.                                                          *)

Leaf(kind, val, src) == [kind |-> kind, val |-> val, src |-> src]
LeafValue(l) == [isDict |-> FALSE, leaf |-> l, items |-> <<>>]
DictValue(d) == [isDict |-> TRUE, leaf |-> Leaf("dict", 0, ""), items |-> d]
\* Python's None
None == LeafValue(Leaf("None", 0, ""))
Pair(k, v) == [k |-> k, v |-> v]

KeysOf(d) == {d[i].k : i \in 1..Len(d)}
HasKey(d, k) == \E i \in 1..Len(d) : d[i].k = k
IndexOf(d, k) == CHOOSE i \in 1..Len(d) : d[i].k = k
\* d[k]
DictGet(d, k) == d[IndexOf(d, k)].v

\* d[k] = v : an existing key keeps its position and takes the new value,
\* a new key is appended
DictSetItem(d, k, v) ==
    IF HasKey(d, k)
    THEN [i \in 1..Len(d) |-> IF d[i].k = k THEN Pair(k, v) ELSE d[i]]
    ELSE Append(d, Pair(k, v))

RECURSIVE DictUpdate(_, _)
\* d.update(other)
DictUpdate(d, other) ==
    IF other = <<>> THEN d
    ELSE DictUpdate(DictSetItem(d, other[1].k, other[1].v), Tail(other))

\* d.pop(k, default): <<the value returned, d afterwards>>
DictPop(d, k, default) ==
    IF HasKey(d, k)
    THEN <<DictGet(d, k), SelectSeq(d, LAMBDA p : p.k # k)>>
    ELSE <<default, d>>

-----------------------------------------------------------------------------
(* Bounded input sets: all dicts with a given total number of keys.        *)

\* values whose nested dict holds exactly m keys; acc[i + 1] is the set of
\* dicts of exactly i keys
ValuesOfSize(acc, m, L) ==
    (IF m = 0 THEN {LeafValue(l) : l \in L} ELSE {}) \cup
    {DictValue(x) : x \in acc[m + 1]}

\* the dicts of Len(acc) keys whose first value holds m of them
LevelWith(acc, m, K, L) ==
    LET n == Len(acc) IN
    { x \in { <<Pair(k, v)>> \o r :
                 k \in K, r \in acc[n - m], v \in ValuesOfSize(acc, m, L) } :
        \A i \in 2..Len(x) : x[i].k # x[1].k }

RECURSIVE LevelFrom(_, _, _, _)
LevelFrom(acc, m, K, L) ==
    IF m >= Len(acc) THEN {}
    ELSE LevelWith(acc, m, K, L) \cup LevelFrom(acc, m + 1, K, L)

\* the dicts of exactly Len(acc) keys, built from the smaller ones
Level(acc, K, L) == LevelFrom(acc, 0, K, L)

RECURSIVE Grow(_, _, _, _)
Grow(acc, n, K, L) ==
    IF Len(acc) > n THEN acc ELSE Grow(Append(acc, Level(acc, K, L)), n, K, L)

RECURSIVE Flat(_, _)
Flat(acc, i) == IF i > Len(acc) THEN {} ELSE acc[i] \cup Flat(acc, i + 1)

\* all dicts over keys K and leaves L with at most n keys in total
DictsUpTo(n, K, L) == Flat(Grow(<<{<<>>}>>, n, K, L), 1)

-----------------------------------------------------------------------------
(* UnifiedExperiment._flatten_dict                                         *)

\* the join without the test of parent_key
NewKeyAlways(parent_key, separator, k) == parent_key \o separator \o k

\* new_key = f"{parent_key}{separator}{k}" if parent_key else k
NewKey(parent_key, separator, k) ==
    IF parent_key # "" THEN parent_key \o separator \o k ELSE k

RECURSIVE flatten_dict(_, _, _)
RECURSIVE flatten_loop(_, _, _, _, _)
\* the for loop over d.items(), from the i-th pair on, with `items` so far
flatten_loop(d, parent_key, separator, i, acc) ==
    IF i > Len(d) THEN acc
    ELSE LET new_key == NewKey(parent_key, separator, d[i].k)
             v == d[i].v
         IN flatten_loop(d, parent_key, separator, i + 1,
                IF v.isDict
                THEN DictUpdate(acc, flatten_dict(v.items, new_key, separator))
                ELSE DictSetItem(acc, new_key, v))

flatten_dict(d, parent_key, separator) ==
    flatten_loop(d, parent_key, separator, 1, <<>>)

\* the defaults of the signature: parent_key = "", separator = "/"
FlattenDefault(d) == flatten_dict(d, "", "/")

-----------------------------------------------------------------------------
(* What the documentation says of a mapping, computed from its leaves.     *)

RECURSIVE LeafPaths(_, _)
\* the leaves of d in traversal order, each with the keys on its path
LeafPaths(d, prefix) ==
    IF d = <<>> THEN <<>>
    ELSE (IF d[1].v.isDict
          THEN LeafPaths(d[1].v.items, Append(prefix, d[1].k))
          ELSE <<[path |-> Append(prefix, d[1].k), v |-> d[1].v]>>)
         \o LeafPaths(Tail(d), prefix)

RECURSIVE JoinPath(_, _)
JoinPath(path, sep) ==
    IF Len(path) = 1 THEN path[1] ELSE path[1] \o sep \o JoinPath(Tail(path), sep)

RECURSIVE AllKeysIn(_, _)
\* every key of d, at every level, is in S
AllKeysIn(d, S) ==
    \A i \in 1..Len(d) :
        /\ d[i].k \in S
        /\ d[i].v.isDict => AllKeysIn(d[i].v.items, S)

IsFlat(d) == \A i \in 1..Len(d) : ~ d[i].v.isDict

\* the keys of the model that are non-empty and hold no "/"
PlainKeys == {"a", "b", "c", "d", "epoch"}

\* the entries of a dict as a set
EntrySet(d) == {d[i] : i \in 1..Len(d)}

-----------------------------------------------------------------------------
(* Inputs of the direct calls of _flatten_dict.                            *)

FlattenKeys == {"", "a", "b", "a/b"}
FlattenLeaves == {Leaf("int", 1, ""), Leaf("int", 2, "")}

\* {"a": {"b": 1, "c": {"d": 2}}}
ExampleNested ==
    <<Pair("a", DictValue(<<Pair("b", LeafValue(Leaf("int", 1, ""))),
                            Pair("c", DictValue(<<Pair("d", LeafValue(Leaf("int", 2, "")))>>))>>))>>

FlattenInputs == DictsUpTo(MaxNodes, FlattenKeys, FlattenLeaves) \cup {ExampleNested}

Idle ==
    /\ exp_backend = "None" /\ backend = "None" /\ logger = "None"
    /\ log_base_model = FALSE /\ calls = <<>> /\ steps = <<>>
    /\ lastOp = [op |-> "None", arg |-> ""]
    /\ closes = 0 /\ finishes = 0 /\ logins = 0

InitFlatten ==
    /\ pc = "call"
    /\ data \in FlattenInputs
    /\ items = <<>>
    /\ Idle

\* items = UnifiedExperiment._flatten_dict(data)
CallFlatten ==
    /\ pc = "call"
    /\ pc' = "done"
    /\ items' = FlattenDefault(data)
    /\ UNCHANGED <<data, exp_backend, backend, logger, log_base_model,
                   calls, steps, lastOp, closes, finishes, logins>>

NextFlatten == CallFlatten

SpecFlatten == InitFlatten /\ [][NextFlatten]_vars

\* {"a/b": 1, "a/c/d": 2}
ExampleFlat ==
    <<Pair("a/b", LeafValue(Leaf("int", 1, ""))),
      Pair("a/c/d", LeafValue(Leaf("int", 2, "")))>>

\* C1: for a mapping whose keys at all levels are non-empty and hold no "/",
\* _flatten_dict returns exactly one entry per leaf, keyed by the keys on the
\* leaf's path joined with "/", holding the leaf's value; the documented
\* example yields {"a/b": 1, "a/c/d": 2}; a flat mapping is returned as it is.
FlattenPlainKeys ==
    pc = "done" =>
        LET lp == LeafPaths(data, <<>>) IN
        /\ AllKeysIn(data, PlainKeys) =>
              /\ Len(items) = Len(lp)
              /\ EntrySet(items) =
                    {Pair(JoinPath(lp[i].path, "/"), lp[i].v) : i \in 1..Len(lp)}
              /\ \A i \in 1..Len(items) : ~ items[i].v.isDict
        /\ data = ExampleNested => items = ExampleFlat
        /\ IsFlat(data) => items = data

FlattenPlainKeysWitness ==
    /\ pc = "done"
    /\ AllKeysIn(data, PlainKeys)
    /\ ~ IsFlat(data)
    /\ Len(items) = 2
    /\ items[1].k = "a/b"

\* C2: for every input mapping, whatever its keys, flattening keeps every
\* leaf: the result has as many entries as the input has leaves, and every
\* leaf is found under its joined path.
FlattenNeverCollides ==
    pc = "done" =>
        LET lp == LeafPaths(data, <<>>) IN
        /\ Len(items) = Len(lp)
        /\ \A i \in 1..Len(lp) : \E j \in 1..Len(items) : items[j].v = lp[i].v

-----------------------------------------------------------------------------
(* UnifiedExperiment.log                                                   *)

\* value.get_figure() of an Axes: the Figure the axes belong to
get_figure(value) == LeafValue(Leaf("Figure", value.leaf.val, "Axes"))

\* wandb.Image(value)
wandb_Image(value) ==
    LeafValue(Leaf("wandb.Image", value.leaf.val, value.leaf.kind))

\* np.array(value) of a PIL image
np_array(value) == LeafValue(Leaf("ndarray", value.leaf.val, "PIL.Image"))

\* np.isscalar(value): numbers, and also str and bytes objects
np_isscalar(value) == value.leaf.kind \in {"int", "float", "str", "bytes"}

\* the conversion without the PIL images
WandbConvertFiguresOnly(value) ==
    LET fig == IF value.leaf.kind = "Axes" THEN get_figure(value) ELSE value
    IN  IF fig.leaf.kind = "Figure" THEN wandb_Image(fig) ELSE value

\* one round of the wandb loop: the value the payload holds afterwards
WandbConvert(value) ==
    LET fig == IF value.leaf.kind = "Axes" THEN get_figure(value) ELSE value
    IN  IF fig.leaf.kind = "Figure" \/ fig.leaf.kind = "PIL.Image"
        THEN wandb_Image(fig)
        ELSE value

\* self._experiment.log(data): no step is handed over, so the backend's own
\* default (None, its automatic step) applies
WandbCalls(flat, step) ==
    <<[fn |-> "log",
       payload |-> [i \in 1..Len(flat) |-> Pair(flat[i].k, WandbConvert(flat[i].v))],
       step |-> None]>>

TbCall(fn, key, value, step, dataformats) ==
    [fn |-> fn, tag |-> key, value |-> value, global_step |-> step,
     dataformats |-> dataformats]

\* one round of the tensorboard loop: the backend calls it makes
TbDispatch(key, value, step) ==
    LET fig == IF value.leaf.kind = "Axes" THEN get_figure(value) ELSE value
    IN  IF fig.leaf.kind = "Figure"
        THEN <<TbCall("add_figure", key, fig, step, "")>>
        ELSE IF fig.leaf.kind = "ndarray"
        THEN <<TbCall("add_image", key, fig, step, "HWC")>>
        ELSE IF fig.leaf.kind = "PIL.Image"
        THEN <<TbCall("add_image", key, np_array(fig), step, "HWC")>>
        ELSE IF np_isscalar(fig) /\ fig.leaf.kind # "str"
        THEN <<TbCall("add_scalar", key, fig, step, "")>>
        ELSE <<>>

RECURSIVE TbCalls(_, _)
\* the tensorboard loop over the flattened entry
TbCalls(flat, step) ==
    IF flat = <<>> THEN <<>>
    ELSE TbDispatch(flat[1].k, flat[1].v, step) \o TbCalls(Tail(flat), step)

\* reading the step and leaving the key in the caller's mapping
PopEpochKeep(d) ==
    <<IF HasKey(d, "epoch") THEN DictGet(d, "epoch") ELSE None, d>>

\* step = data.pop("epoch", None): <<step, the caller's mapping afterwards>>
PopEpoch(d) == DictPop(d, "epoch", None)

\* UnifiedExperiment.log(data) on an adapter of backend b: the step it
\* extracts, the caller's mapping afterwards, and the backend calls made
ExperimentLog(b, d) ==
    LET popped == PopEpoch(d)
        step == popped[1]
        flat == FlattenDefault(popped[2])
    IN  [step |-> step,
         data |-> popped[2],
         calls |-> IF b = "wandb" THEN WandbCalls(flat, step)
                   ELSE IF b = "tensorboard" THEN TbCalls(flat, step)
                   ELSE <<>>]

LogKeys == {"", "a", "epoch"}
LogLeaves ==
    {Leaf("Axes", 1, ""), Leaf("Figure", 1, ""), Leaf("ndarray", 1, ""),
     Leaf("PIL.Image", 1, ""), Leaf("float", 1, ""), Leaf("str", 1, ""),
     Leaf("bytes", 1, "")}

AdapterEntries == DictsUpTo(MaxEntryNodes, LogKeys, LogLeaves)

\* UnifiedExperiment(experiment, backend), and the mapping its caller holds
InitAdapter ==
    /\ pc = "ready"
    /\ exp_backend \in {"wandb", "tensorboard"}
    /\ data \in AdapterEntries
    /\ items = <<>>
    /\ backend = "None" /\ logger = "None" /\ log_base_model = FALSE
    /\ calls = <<>> /\ steps = <<>>
    /\ lastOp = [op |-> "None", arg |-> ""]
    /\ closes = 0 /\ finishes = 0 /\ logins = 0

\* experiment.log(data), on the mapping object the caller holds
Log ==
    /\ pc = "ready"
    /\ Len(steps) < MaxLogs
    /\ LET r == ExperimentLog(exp_backend, data) IN
         /\ data' = r.data
         /\ calls' = r.calls
         /\ steps' = Append(steps, r.step)
    /\ lastOp' = [op |-> "log", arg |-> ""]
    /\ UNCHANGED <<pc, items, exp_backend, backend, logger, log_base_model,
                   closes, finishes, logins>>

NextAdapter == Log

SpecAdapter == InitAdapter /\ [][NextAdapter]_vars

-----------------------------------------------------------------------------
(* Claims about UnifiedExperiment.log.                                     *)

\* a step of the model in which log() ran
LogRan == Len(steps') = Len(steps) + 1

\* the value under the caller's top-level "epoch" key, None without the key
EpochOf(d) == IF HasKey(d, "epoch") THEN DictGet(d, "epoch") ELSE None

\* the caller's mapping without its top-level "epoch" key
WithoutEpoch(d) == SelectSeq(d, LAMBDA p : p.k # "epoch")

\* C3: on tensorboard, when the entry has the top-level key "epoch", no
\* backend call of log() has the tag "epoch"; and every backend call carries
\* the value of that key as global_step, None when the key is absent.
TbStepAndNoEpochTag ==
    [][(LogRan /\ exp_backend = "tensorboard") =>
         \A i \in 1..Len(calls') :
            /\ HasKey(data, "epoch") => calls'[i].tag # "epoch"
            /\ calls'[i].global_step = EpochOf(data)]_vars

\* C4: on wandb the one backend log call carries the value of the entry's
\* "epoch" key as its step, None when the key is absent, and its payload
\* does not hold the step key.
WandbStepForwarded ==
    [][(LogRan /\ exp_backend = "wandb") =>
         /\ Len(calls') = 1
         /\ calls'[1].step = EpochOf(data)]_vars

\* the call the documentation promises for one leaf: <<fn, tag>>, or nothing
ClaimedTbCall(path, v) ==
    LET kind == v.leaf.kind IN
    IF kind \in {"Axes", "Figure"} THEN <<<<"add_figure", JoinPath(path, "/")>>>>
    ELSE IF kind \in {"ndarray", "PIL.Image"} THEN <<<<"add_image", JoinPath(path, "/")>>>>
    ELSE IF kind \in {"int", "float"} THEN <<<<"add_scalar", JoinPath(path, "/")>>>>
    ELSE <<>>

RECURSIVE ClaimedTbCalls(_)
ClaimedTbCalls(lp) ==
    IF lp = <<>> THEN <<>>
    ELSE ClaimedTbCall(lp[1].path, lp[1].v) \o ClaimedTbCalls(Tail(lp))

\* C5: on tensorboard the backend calls of one log(entry) are, in traversal
\* order of the entry, one call per leaf of a supported type, tagged with the
\* leaf's joined path (figure call, image call or scalar call by type), and
\* no call for any other leaf.
TbOneCallPerSupportedLeaf ==
    [][(LogRan /\ exp_backend = "tensorboard") =>
         [i \in 1..Len(calls') |-> <<calls'[i].fn, calls'[i].tag>>]
           = ClaimedTbCalls(LeafPaths(WithoutEpoch(data), <<>>))]_vars

\* the payload of the statement: the flattened entry with every value of
\* the kinds in `wrapped` replaced by the image wrapper, the rest unchanged
PayloadWraps(payload, flat, wrapped) ==
    /\ Len(payload) = Len(flat)
    /\ \A i \in 1..Len(flat) :
          /\ payload[i].k = flat[i].k
          /\ IF flat[i].v.leaf.kind \in wrapped
             THEN /\ payload[i].v.leaf.kind = "wandb.Image"
                  /\ payload[i].v.leaf.val = flat[i].v.leaf.val
             ELSE payload[i].v = flat[i].v

\* C6 as stated: on wandb every log() makes exactly one backend log call,
\* whose payload is the flattened entry without the step key, with every
\* axes or figure value replaced by the image wrapper and every other value
\* unchanged.
WandbWrapsFiguresOnly ==
    [][(LogRan /\ exp_backend = "wandb") =>
         /\ Len(calls') = 1
         /\ calls'[1].fn = "log"
         /\ PayloadWraps(calls'[1].payload, FlattenDefault(WithoutEpoch(data)),
                         {"Axes", "Figure"})]_vars

\* C6 amended: as above, with PIL images wrapped as well: every axes, figure
\* or PIL image value is replaced by the image wrapper, every other value is
\* unchanged.
WandbWrapsFiguresAndImages ==
    [][(LogRan /\ exp_backend = "wandb") =>
         /\ Len(calls') = 1
         /\ calls'[1].fn = "log"
         /\ PayloadWraps(calls'[1].payload, FlattenDefault(WithoutEpoch(data)),
                         {"Axes", "Figure", "PIL.Image"})]_vars

\* a wandb log of an entry with a PIL image and a plain value
WandbWrapsWitness ==
    /\ exp_backend = "wandb"
    /\ Len(steps) = 1
    /\ Len(calls) = 1
    /\ \E i, j \in 1..Len(calls[1].payload) :
          /\ calls[1].payload[i].v.leaf.kind = "wandb.Image"
          /\ calls[1].payload[i].v.leaf.src = "PIL.Image"
          /\ calls[1].payload[j].v.leaf.kind \in {"float", "ndarray", "str", "bytes"}

-----------------------------------------------------------------------------
(* UnifiedLogger                                                           *)

\* a constructor that falls back to the local writer for unknown selectors
InitLoggerFallback(b) ==
    IF b = "wandb"
    THEN [ok |-> TRUE, logger |-> "WandbLogger", login |-> 1]
    ELSE [ok |-> TRUE, logger |-> "TensorBoardLogger", login |-> 0]

\* the branches of __init__ on the selector: whether construction goes on,
\* the backend logger built, and the number of wandb.login calls
InitLogger(b) ==
    IF b = "wandb"
    THEN [ok |-> TRUE, logger |-> "WandbLogger", login |-> 1]
    ELSE IF b = "tensorboard"
    THEN [ok |-> TRUE, logger |-> "TensorBoardLogger", login |-> 0]
    ELSE [ok |-> FALSE, logger |-> "None", login |-> 0]

\* the flag with the comparison the wrong way round
LogBaseModelInverted(b) == b = "tensorboard"

\* self.log_base_model = not backend == "tensorboard"
LogBaseModel(b) == ~ (b = "tensorboard")

\* log_hyperparams(params): the backend calls it makes
HyperparamsCalls(lbm, params) ==
    IF lbm THEN <<[fn |-> "logger.log_hyperparams", params |-> params]>> ELSE <<>>

\* log_metrics(metrics, step)
MetricsCalls(metrics, step) ==
    <<[fn |-> "logger.log_metrics", metrics |-> metrics, step |-> step]>>

\* hasattr(self._logger, "save"): both backend loggers have the method
HasSave(l) == l \in {"WandbLogger", "TensorBoardLogger"}

\* save()
SaveCalls(l) == IF HasSave(l) THEN <<[fn |-> "logger.save"]>> ELSE <<>>

\* a close() that finalizes whatever the backend
CloseCallsAlways(b) == <<[fn |-> "wandb.finish"]>>

\* close(): the backend calls it makes
CloseCalls(b) == IF b = "wandb" THEN <<[fn |-> "wandb.finish"]>> ELSE <<>>

Selectors == {"wandb", "tensorboard", "mlflow"}
Params == {"cfg1", "cfg2"}
Metrics == {"m1"}
MetricSteps == {"None", "0"}

FacadeEntries == DictsUpTo(MaxFacadeNodes, LogKeys, LogLeaves)

\* before UnifiedLogger(backend, **kwargs) runs; data is the mapping the
\* caller will log
InitFacade ==
    /\ pc = "new"
    /\ data \in FacadeEntries
    /\ items = <<>>
    /\ Idle

\* UnifiedLogger.__init__
Construct ==
    /\ pc = "new"
    /\ \E b \in Selectors :
         LET r == InitLogger(b) IN
         /\ backend' = b
         /\ logger' = r.logger
         /\ logins' = logins + r.login
         /\ IF r.ok
            THEN /\ pc' = "ready"
                 /\ exp_backend' = b
                 /\ log_base_model' = LogBaseModel(b)
            ELSE /\ pc' = "failed"
                 /\ UNCHANGED <<exp_backend, log_base_model>>
         /\ lastOp' = [op |-> "init", arg |-> b]
    /\ UNCHANGED <<data, items, calls, steps, closes, finishes>>

\* UnifiedLogger.log(data): self._experiment.log(data)
FacadeLog == backend # "None" /\ Log

\* UnifiedLogger.log_hyperparams(params)
LogHyperparams ==
    /\ pc = "ready" /\ backend # "None"
    /\ \E p \in Params :
         /\ calls' = HyperparamsCalls(log_base_model, p)
         /\ lastOp' = [op |-> "log_hyperparams", arg |-> p]
    /\ UNCHANGED <<pc, data, items, exp_backend, backend, logger,
                   log_base_model, steps, closes, finishes, logins>>

\* UnifiedLogger.log_metrics(metrics, step)
LogMetrics ==
    /\ pc = "ready" /\ backend # "None"
    /\ \E m \in Metrics, s \in MetricSteps :
         /\ calls' = MetricsCalls(m, s)
         /\ lastOp' = [op |-> "log_metrics", arg |-> m]
    /\ UNCHANGED <<pc, data, items, exp_backend, backend, logger,
                   log_base_model, steps, closes, finishes, logins>>

\* UnifiedLogger.save()
Save ==
    /\ pc = "ready" /\ backend # "None"
    /\ calls' = SaveCalls(logger)
    /\ lastOp' = [op |-> "save", arg |-> ""]
    /\ UNCHANGED <<pc, data, items, exp_backend, backend, logger,
                   log_base_model, steps, closes, finishes, logins>>

\* UnifiedLogger.close()
Close ==
    /\ pc = "ready" /\ backend # "None"
    /\ closes < MaxCloses
    /\ calls' = CloseCalls(backend)
    /\ closes' = closes + 1
    /\ finishes' = finishes + Len(SelectSeq(calls', LAMBDA c : c.fn = "wandb.finish"))
    /\ lastOp' = [op |-> "close", arg |-> ""]
    /\ UNCHANGED <<pc, data, items, exp_backend, backend, logger,
                   log_base_model, steps, logins>>

NextFacade ==
    \/ Construct
    \/ FacadeLog
    \/ LogHyperparams
    \/ LogMetrics
    \/ Save
    \/ Close

SpecFacade == InitFacade /\ [][NextFacade]_vars

\* the three specifications side by side
Init == InitFlatten \/ InitAdapter \/ InitFacade
Next == NextFlatten \/ NextAdapter \/ NextFacade
Spec == Init /\ [][Next]_vars

-----------------------------------------------------------------------------
(* Claims about UnifiedLogger.                                             *)

\* C7: after construction with a selector other than "wandb" and
\* "tensorboard" has failed, no backend logger and no adapter exist, no login
\* call was made, no backend call was or is made, and no operation runs on
\* the facade.
UnknownBackendFails ==
    /\ [](lastOp.op = "init" /\ backend \notin {"wandb", "tensorboard"} =>
            pc = "failed")
    /\ [](pc = "failed" =>
            /\ logger = "None"
            /\ exp_backend = "None"
            /\ logins = 0
            /\ calls = <<>> /\ finishes = 0)
    /\ [][pc = "failed" => UNCHANGED vars]_vars

UnknownBackendFailsWitness ==
    /\ pc = "failed"
    /\ backend = "mlflow"

\* C8: every log_hyperparams(params) makes no backend call on a facade built
\* for tensorboard, and exactly one call of the backend logger's
\* log_hyperparams, with the same params, on one built for wandb.
HyperparamsSuppressedOnTensorboard ==
    lastOp.op = "log_hyperparams" =>
        /\ backend = "tensorboard" => calls = <<>>
        /\ backend = "wandb" =>
             calls = <<[fn |-> "logger.log_hyperparams", params |-> lastOp.arg]>>

\* log_hyperparams after a log and a close, on tensorboard
HyperparamsWitness ==
    /\ lastOp.op = "log_hyperparams"
    /\ backend = "tensorboard"
    /\ closes >= 1
    /\ Len(steps) >= 1

\* C9: every close() makes exactly one finalize call on a facade built for
\* wandb and no backend call on one built for tensorboard, however often and
\* whenever it is called; the stored selector never changes after
\* construction.
CloseFinalizesOnlyWandb ==
    /\ [](pc = "ready" =>
            /\ backend = "wandb" => finishes = closes
            /\ backend = "tensorboard" => finishes = 0
            /\ lastOp.op = "close" =>
                 calls = IF backend = "wandb" THEN <<[fn |-> "wandb.finish"]>>
                         ELSE <<>>)
    /\ [][pc # "new" => backend' = backend /\ exp_backend' = exp_backend]_vars

\* close() called twice on wandb, before any log
CloseWitness ==
    /\ backend = "wandb"
    /\ closes = 2
    /\ steps = <<>>
    /\ finishes = 2

====
